---- MODULE Spec2Model ----
(***************************************************************************)
(* Model of the StreamPlayer component (src/unnamed/part_000): the refs,  *)
(* the React state, the source effect, the asynchronous initialisation    *)
(* (initializePlayer / initHlsPlayer / initShakaPlayer) with its          *)
(* suspension points, the load-deadline timer and the engine callbacks.   *)
(*                                                                         *)
(* Every handler is a function from the component's state (a record h of  *)
(* all the variables) to the state after it ran; an action commits the    *)
(* result of one handler together with the re-render that follows it.     *)
(***************************************************************************)
EXTENDS Integers, Sequences, FiniteSets, TLC

VARIABLES
    phase,              \* "new" (before the first effect), "mounted", "unmounted"
    source,             \* the source prop
    videoRef,           \* videoRef.current: 0 (null) or the id of the <video> element
    videoCount,         \* number of <video> elements React has created so far
    videoSrc,           \* videoSrc[e]: TRUE when video.src was assigned on element e
    hlsRef,             \* hlsRef.current: 0 (null) or the session whose Hls instance it holds
    shakaPlayerRef,     \* shakaPlayerRef.current: 0 or the session whose shaka.Player it holds
    playerTypeRef,      \* playerTypeRef.current
    isMountedRef,       \* isMountedRef.current
    loadingTimeoutRef,  \* loadingTimeoutRef.current: 0 or the session that armed the timer
    timers,             \* the setTimeout timers that are armed (by arming session)
    engine,             \* engine[s]: "none", "live" (constructed, not destroyed), "destroyed"
    destroyCalls,       \* destroyCalls[s]: number of destroy() calls made on the engine of s
    sess,               \* sess[s]: the s-th run of initializePlayer that got past its guard
    nextId,             \* id of the next session
    metaListeners,      \* sessions whose once-listener for loadedmetadata is registered
    isLoading,          \* useState
    error,              \* useState
    isPlaying,          \* useState
    hlsSupport,         \* environment: "mse" (Hls.isSupported()), "native" (canPlayType), "none"
    shakaSupported,     \* environment: shaka.Player.isBrowserSupported()
    lateSetter,         \* history: a state setter was called after the unmount cleanup
    unmountedLoading,   \* history: the component was unmounted while isLoading
    playing,            \* the <video> elements that are not paused
    lastPlay,           \* outcome of the video.play() of the last step: "none", "allowed", "rejected"
    lastEvent,          \* the engine error event of the last step and the recovery call it led to
    succeeded,          \* history: sessions whose success callback set the state to playing
    rawUrl,             \* resolver: the src of the source handed to the resolver
    hint,               \* resolver: the type of that source, "none" when absent
    resolved,           \* resolver: what the source was resolved to, and by which player
    isMuted,            \* useState
    volume,             \* useState: volume[0], in percent
    currentTime,        \* useState
    duration,           \* useState
    videoMuted,         \* video.muted of the <video> in videoRef
    videoVolume,        \* video.volume of the <video> in videoRef, in hundredths
    calls,              \* calls[s]: the calls made so far on the shaka.Player of session s
    player,             \* which component is mounted: "part_000" or "StreamPlayer.tsx"
    pageProtocol,       \* window.location.protocol
    onErrorCall,        \* error listener: event.detail.code and the errorMessage computed from it
    last                \* history: the operation of the last step and its session

vars == <<phase, source, videoRef, videoCount, videoSrc, hlsRef, shakaPlayerRef,
          playerTypeRef, isMountedRef, loadingTimeoutRef, timers, engine,
          destroyCalls, sess, nextId, metaListeners, isLoading, error, isPlaying,
          hlsSupport, shakaSupported, lateSetter, unmountedLoading, playing,
          lastPlay, lastEvent, succeeded, rawUrl, hint, resolved, calls, player,
          pageProtocol, onErrorCall, isMuted, volume, currentTime, duration,
          videoMuted, videoVolume, last>>

---------------------------------------------------------------------------
(* Bounds *)

MaxSessions == 2

MaxVideos == 2

\* longest base URL handed to the resolver, in tokens
MaxBaseLen == 2

Sessions == 1..MaxSessions

---------------------------------------------------------------------------
(* Strings.  A URL is a sequence of tokens; a token stands for the         *)
(* characters of its name.                                                 *)

Lower(tok) ==
    CASE tok = ".MPD"  -> ".mpd"
      [] tok = ".M3U8" -> ".m3u8"
      [] tok = ".MP4"  -> ".mp4"
      [] OTHER         -> tok

toLowerCase(url) == [i \in 1..Len(url) |-> Lower(url[i])]

includes(url, tok) == \E i \in 1..Len(url) : url[i] = tok

\* url.includes('?|'): a "?" token directly followed by a "|" token
includesQP(url) == \E i \in 1..(Len(url) - 1) : url[i] = "?" /\ url[i + 1] = "|"

\* positions where the separator starts
SepStarts(url, sep) ==
    IF sep = "?|"
    THEN {i \in 1..(Len(url) - 1) : url[i] = "?" /\ url[i + 1] = "|"}
    ELSE {i \in 1..Len(url) : url[i] = sep}

SepLen(sep) == IF sep = "?|" THEN 2 ELSE 1

Min(S) == CHOOSE x \in S : \A y \in S : x <= y

Max(S) == CHOOSE x \in S : \A y \in S : y <= x

\* url.split(separator)[0] and [1]; the separator occurs in url
SplitFirst(url, sep) ==
    LET p == Min(SepStarts(url, sep)) IN SubSeq(url, 1, p - 1)

SplitSecond(url, sep) ==
    LET p    == Min(SepStarts(url, sep))
        from == p + SepLen(sep)
        rest == {i \in SepStarts(url, sep) : i >= from}
        to   == IF rest = {} THEN Len(url) ELSE Min(rest) - 1
    IN  SubSeq(url, from, to)

\* new URLSearchParams(block): a leading "?" is dropped and the pairs are
\* separated by "&".  The tokens "drmScheme=" and "drmLicense=" stand for a
\* name with its "="; no other token holds a "=".
ParamsBody(block) ==
    IF block # <<>> /\ block[1] = "?" THEN Tail(block) ELSE block

PairStarts(body) == {1} \cup {i + 1 : i \in {j \in 1..Len(body) : body[j] = "&"}}

PairEnd(body, from) ==
    LET amps == {j \in from..Len(body) : body[j] = "&"}
    IN  IF amps = {} THEN Len(body) ELSE Min(amps) - 1

\* params.get(name): the value of the first pair with that name, as a token
\* sequence; <<>> stands for null and for the empty string (both are falsy)
ParamsGet(block, name) ==
    LET body == ParamsBody(block)
        hits == {i \in PairStarts(body) : i <= Len(body) /\ body[i] = name}
    IN  IF hits = {} THEN <<>>
        ELSE SubSeq(body, Min(hits) + 1, PairEnd(body, Min(hits)))

NoDrm == [scheme |-> <<>>, license |-> <<>>]

\* detectStreamType with the test for hls made before the test for dash
detectStreamType_HlsFirst(url) ==
    LET hasSep    == includesQP(url) \/ includes(url, "|")
        separator == IF includesQP(url) THEN "?|" ELSE "|"
        cleanUrl  == IF hasSep THEN SplitFirst(url, separator) ELSE url
        drmParams == IF hasSep THEN SplitSecond(url, separator) ELSE <<>>
        drmScheme == ParamsGet(drmParams, "drmScheme=")
        drmLicense == ParamsGet(drmParams, "drmLicense=")
        drmInfo   == IF hasSep /\ drmParams # <<>> /\ drmScheme # <<>> /\ drmLicense # <<>>
                     THEN [scheme |-> drmScheme, license |-> drmLicense]
                     ELSE NoDrm
        urlLower  == toLowerCase(cleanUrl)
        type      == IF includes(urlLower, ".m3u8") \/ includes(urlLower, "/hls/")
                     THEN "hls"
                     ELSE IF includes(urlLower, ".mpd") \/ includes(urlLower, "/dash/")
                        \/ drmInfo # NoDrm
                     THEN "dash"
                     ELSE IF includes(urlLower, ".mp4") \/ includes(urlLower, ".webm")
                     THEN "native"
                     ELSE "hls"
    IN  [type |-> type, cleanUrl |-> cleanUrl, drmInfo |-> drmInfo]

\* detectStreamType with the test for native made before the test for hls
detectStreamType_NativeFirst(url) ==
    LET hasSep    == includesQP(url) \/ includes(url, "|")
        separator == IF includesQP(url) THEN "?|" ELSE "|"
        cleanUrl  == IF hasSep THEN SplitFirst(url, separator) ELSE url
        drmParams == IF hasSep THEN SplitSecond(url, separator) ELSE <<>>
        drmScheme == ParamsGet(drmParams, "drmScheme=")
        drmLicense == ParamsGet(drmParams, "drmLicense=")
        drmInfo   == IF hasSep /\ drmParams # <<>> /\ drmScheme # <<>> /\ drmLicense # <<>>
                     THEN [scheme |-> drmScheme, license |-> drmLicense]
                     ELSE NoDrm
        urlLower  == toLowerCase(cleanUrl)
        type      == IF includes(urlLower, ".mpd") \/ includes(urlLower, "/dash/")
                        \/ drmInfo # NoDrm
                     THEN "dash"
                     ELSE IF includes(urlLower, ".mp4") \/ includes(urlLower, ".webm")
                     THEN "native"
                     ELSE "hls"
    IN  [type |-> type, cleanUrl |-> cleanUrl, drmInfo |-> drmInfo]

detectStreamType(url) ==
    LET hasSep    == includesQP(url) \/ includes(url, "|")
        separator == IF includesQP(url) THEN "?|" ELSE "|"
        cleanUrl  == IF hasSep THEN SplitFirst(url, separator) ELSE url
        drmParams == IF hasSep THEN SplitSecond(url, separator) ELSE <<>>
        drmScheme == ParamsGet(drmParams, "drmScheme=")
        drmLicense == ParamsGet(drmParams, "drmLicense=")
        drmInfo   == IF hasSep /\ drmParams # <<>> /\ drmScheme # <<>> /\ drmLicense # <<>>
                     THEN [scheme |-> drmScheme, license |-> drmLicense]
                     ELSE NoDrm
        urlLower  == toLowerCase(cleanUrl)
        type      == IF includes(urlLower, ".mpd") \/ includes(urlLower, "/dash/")
                        \/ drmInfo # NoDrm
                     THEN "dash"
                     ELSE IF includes(urlLower, ".m3u8") \/ includes(urlLower, "/hls/")
                     THEN "hls"
                     ELSE IF includes(urlLower, ".mp4") \/ includes(urlLower, ".webm")
                     THEN "native"
                     ELSE "hls"
    IN  [type |-> type, cleanUrl |-> cleanUrl, drmInfo |-> drmInfo]

\* The ClearKey configuration of initShakaPlayer: player.configure is called
\* with the table {[keyId]: key}, keyId and key being the first two pieces of
\* license.split(':')
NoKeys == [configured |-> FALSE, clearKeys |-> {}]

configureClearKeys(drmInfo) ==
    IF /\ drmInfo # NoDrm
       /\ drmInfo.scheme = <<"clearkey">>
       /\ drmInfo.license # <<>>
       /\ includes(drmInfo.license, ":")
    THEN [configured |-> TRUE,
          clearKeys  |-> {<<SplitFirst(drmInfo.license, ":"),
                            SplitSecond(drmInfo.license, ":")>>}]
    ELSE NoKeys

\* A source with its type hint ("none" when the caller gives no type)
Source(url, type) == [present |-> TRUE, src |-> url, type |-> type]

NotResolved ==
    [by |-> "none", engine |-> "none", type |-> "none", cleanUrl |-> <<>>,
     drmInfo |-> NoDrm, keys |-> NoKeys]

\* initializePlayer with the source's type hint taking precedence over the
\* detected type
selectEngine_HintWins(src) ==
    LET d    == detectStreamType(src.src)
        type == IF src.type = "none" THEN d.type
                ELSE IF src.type = "mp4" THEN "native" ELSE src.type
    IN  [by |-> "part_000",
         engine |-> IF type = "dash" THEN "shaka"
                    ELSE IF type = "hls" THEN "hls" ELSE "native",
         type |-> type, cleanUrl |-> d.cleanUrl, drmInfo |-> d.drmInfo,
         keys |-> IF type = "dash" THEN configureClearKeys(d.drmInfo) ELSE NoKeys]

\* The engine initializePlayer hands the source to, the URL it is given and
\* the key table it is configured with
selectEngine(src) ==
    LET d == detectStreamType(src.src)
    IN  [by |-> "part_000",
         engine |-> IF d.type = "dash" THEN "shaka"
                    ELSE IF d.type = "hls" THEN "hls" ELSE "native",
         type |-> d.type, cleanUrl |-> d.cleanUrl, drmInfo |-> d.drmInfo,
         keys |-> IF d.type = "dash" THEN configureClearKeys(d.drmInfo) ELSE NoKeys]

---------------------------------------------------------------------------
(* The Shaka-only variant (src/src/components/StreamPlayer.tsx): loadStream *)

\* [a-f0-9]+ under the i flag.  A hex string is one token, and in the URLs
\* considered the token after it starts with no hex digit.
IsHex(tok) == tok \in {"aa11", "bb22", "cc33"}

\* the class [|%7C] matches one character; "|" is the only token ending in one
InDelimiterClass(tok) == tok = "|"

\* positions where /[|%7C]drmScheme/i matches
DrmSchemeStarts(url) ==
    {i \in 1..(Len(url) - 1) : InDelimiterClass(url[i]) /\ url[i + 1] = "drmScheme="}

\* positions where
\* /[|%7C]drmScheme=clearkey&drmLicense=([a-f0-9]+):([a-f0-9]+)/i matches
DrmMatchStarts(url) ==
    {i \in DrmSchemeStarts(url) :
        /\ i + 7 <= Len(url)
        /\ url[i + 2] = "clearkey"
        /\ url[i + 3] = "&"
        /\ url[i + 4] = "drmLicense="
        /\ IsHex(url[i + 5])
        /\ url[i + 6] = ":"
        /\ IsHex(url[i + 7])}

\* btoa of the bytes of a hex string
hexToBase64(hex) ==
    CASE hex = "aa11" -> "qhE="
      [] hex = "bb22" -> "uyI="
      [] hex = "cc33" -> "zDM="

\* The stream is not an http:// URL on an https page and the browser is
\* supported by Shaka, so that loadStream reaches its choice of engine.
loadStream(src) ==
    IF \/ src.type = "hls" \/ includes(src.src, ".m3u8")
       \/ src.type = "dash" \/ includes(src.src, ".mpd")
    THEN LET fullUrl == src.src
             matched == DrmMatchStarts(fullUrl) # {}
             m       == Min(DrmMatchStarts(fullUrl))
         IN  [by |-> "StreamPlayer.tsx", engine |-> "shaka", type |-> "none",
              cleanUrl |-> IF matched
                           THEN SubSeq(fullUrl, 1, Min(DrmSchemeStarts(fullUrl)) - 1)
                           ELSE fullUrl,
              drmInfo |-> NoDrm,
              keys |-> IF matched
                       THEN [configured |-> TRUE,
                             clearKeys |-> {<<<<hexToBase64(fullUrl[m + 5])>>,
                                              <<hexToBase64(fullUrl[m + 7])>>>>}]
                       ELSE NoKeys]
    ELSE [by |-> "StreamPlayer.tsx", engine |-> "native", type |-> "none",
          cleanUrl |-> src.src, drmInfo |-> NoDrm, keys |-> NoKeys]

---------------------------------------------------------------------------
(* The source prop *)

NoSource == [present |-> FALSE, src |-> <<>>]

Src(url) == [present |-> TRUE, src |-> url]

Sources ==
    { Src(<<"https://x/a", ".mpd">>),
      Src(<<"https://x/a", ".m3u8">>),
      Src(<<"https://x/a", ".mp4">>) }

---------------------------------------------------------------------------
(* Error messages *)

NoError == "null"

ErrNoSource == "No stream URL provided"

PLAYER_LOAD_TIMEOUT_MSG == "Stream took too long to load. Please try again."

ErrHlsUnsupported == "HLS is not supported in this browser"

ErrShakaUnsupported == "This browser is not supported by Shaka Player"

ErrHlsFatal == "HLS Error: details"

\* the message of a rejected dynamic import
ErrImport == "error.message of the rejected import"

\* what the catch block shows for a rejected player.load:
\* error instanceof Error ? error.message : 'Failed to initialize player'
ErrLoad == "message of the rejected player.load"

ShakaCodes == {1001, 4032, 6001, 7000}

NoMessage == "no errorMessage yet"

NoErrorCall == [errorCode |-> 0, errorMessage |-> NoMessage]

\* the first range test with its upper bound included
ShakaMessage_InclusiveRange(errorCode) ==
    IF errorCode >= 6000 /\ errorCode <= 7000
    THEN "Network error - please check your connection"
    ELSE IF errorCode >= 4000 /\ errorCode < 5000
    THEN "Media format not supported"
    ELSE IF errorCode >= 1000 /\ errorCode < 2000
    THEN "DRM error - content may be protected"
    ELSE "Stream error (code)"

\* errorMessage as onError computes it; the generic message stands for the
\* template `Stream error (${errorCode})`
ShakaMessage(errorCode) ==
    IF errorCode >= 6000 /\ errorCode < 7000
    THEN "Network error - please check your connection"
    ELSE IF errorCode >= 4000 /\ errorCode < 5000
    THEN "Media format not supported"
    ELSE IF errorCode >= 1000 /\ errorCode < 2000
    THEN "DRM error - content may be protected"
    ELSE "Stream error (code)"

---------------------------------------------------------------------------
(* The component's state as one record, and the primitive steps of the     *)
(* handlers.                                                                *)

NoEvent == [fatal |-> "none", type |-> "none", call |-> "none"]

St ==
    [phase |-> phase, source |-> source, videoRef |-> videoRef,
     videoCount |-> videoCount, videoSrc |-> videoSrc, hlsRef |-> hlsRef,
     shakaPlayerRef |-> shakaPlayerRef, playerTypeRef |-> playerTypeRef,
     isMountedRef |-> isMountedRef, loadingTimeoutRef |-> loadingTimeoutRef,
     timers |-> timers, engine |-> engine, destroyCalls |-> destroyCalls,
     sess |-> sess, nextId |-> nextId, metaListeners |-> metaListeners,
     isLoading |-> isLoading, error |-> error, isPlaying |-> isPlaying,
     lateSetter |-> lateSetter, unmountedLoading |-> unmountedLoading,
     playing |-> playing, lastPlay |-> "none", lastEvent |-> NoEvent,
     succeeded |-> succeeded, calls |-> calls, isMuted |-> isMuted,
     volume |-> volume, currentTime |-> currentTime, duration |-> duration,
     videoMuted |-> videoMuted, videoVolume |-> videoVolume]

\* React drops a state update of an unmounted component; the call is recorded.
setIsLoading(h, v) ==
    IF h.phase = "unmounted" THEN [h EXCEPT !.lateSetter = TRUE]
    ELSE [h EXCEPT !.isLoading = v]

setError(h, v) ==
    IF h.phase = "unmounted" THEN [h EXCEPT !.lateSetter = TRUE]
    ELSE [h EXCEPT !.error = v]

setIsPlaying(h, v) ==
    IF h.phase = "unmounted" THEN [h EXCEPT !.lateSetter = TRUE]
    ELSE [h EXCEPT !.isPlaying = v]

setIsMuted(h, v) ==
    IF h.phase = "unmounted" THEN [h EXCEPT !.lateSetter = TRUE]
    ELSE [h EXCEPT !.isMuted = v]

setVolume(h, v) ==
    IF h.phase = "unmounted" THEN [h EXCEPT !.lateSetter = TRUE]
    ELSE [h EXCEPT !.volume = v]

setCurrentTime(h, v) ==
    IF h.phase = "unmounted" THEN [h EXCEPT !.lateSetter = TRUE]
    ELSE [h EXCEPT !.currentTime = v]

setDuration(h, v) ==
    IF h.phase = "unmounted" THEN [h EXCEPT !.lateSetter = TRUE]
    ELSE [h EXCEPT !.duration = v]

\* video.muted = v on element e; only the element in videoRef is observed
muteElement(h, e, v) == IF e = h.videoRef /\ e # 0 THEN [h EXCEPT !.videoMuted = v] ELSE h

\* The media element load algorithm, run when the element's src is set or
\* removed, leaves the element paused.
loadElement(h, e) == [h EXCEPT !.playing = @ \ {e}]

\* video.play(): the browser's autoplay policy allows it or rejects the
\* promise, which .catch(console.warn) swallows
play(h, e, allowed) ==
    [h EXCEPT !.playing = IF allowed THEN @ \cup {e} ELSE @,
              !.lastPlay = IF allowed THEN "allowed" ELSE "rejected"]

\* engine.destroy(): the instance of session s; a live engine detaches from
\* its <video>
destroyEngine(h, s) ==
    LET a == IF h.engine[s] = "live" THEN loadElement(h, h.sess[s].video) ELSE h
    IN  [a EXCEPT !.engine[s] = "destroyed", !.destroyCalls[s] = @ + 1]

\* if (loadingTimeoutRef.current) { clearTimeout(...); loadingTimeoutRef.current = null }
clearLoadingTimeout(h) ==
    IF h.loadingTimeoutRef # 0
    THEN [h EXCEPT !.timers = @ \ {h.loadingTimeoutRef}, !.loadingTimeoutRef = 0]
    ELSE h

\* destroyPlayer with the two "= null" assignments of the engine refs forgotten
destroyPlayer_KeepsRefs(h) ==
    LET a == IF h.hlsRef # 0 THEN destroyEngine(h, h.hlsRef) ELSE h
        b == IF a.shakaPlayerRef # 0 THEN destroyEngine(a, a.shakaPlayerRef) ELSE a
        c == clearLoadingTimeout(b)
    IN  [c EXCEPT !.playerTypeRef = "null"]

destroyPlayer(h) ==
    LET a == IF h.hlsRef # 0
             THEN [destroyEngine(h, h.hlsRef) EXCEPT !.hlsRef = 0]
             ELSE h
        b == IF a.shakaPlayerRef # 0
             THEN [destroyEngine(a, a.shakaPlayerRef) EXCEPT !.shakaPlayerRef = 0]
             ELSE a
        c == clearLoadingTimeout(b)
    IN  [c EXCEPT !.playerTypeRef = "null"]

\* the history of the sessions that reached the playing state
noteSucceeded(h, s) ==
    IF h.phase = "mounted" THEN [h EXCEPT !.succeeded = @ \cup {s}] ELSE h

\* the success callbacks with the cancellation of the deadline forgotten
loadSucceeded_KeepsDeadline(h, s, allowed) ==
    LET a == play(muteElement(h, h.sess[s].video, h.sess[s].isMuted),
                  h.sess[s].video, allowed)
    IN  noteSucceeded(setIsPlaying(setError(setIsLoading(a, FALSE), NoError), TRUE), s)

\* the body shared by the success callbacks of session s: cancel the
\* deadline, video.muted = isMuted (the isMuted of the render that created
\* the callback), video.play().catch(console.warn), setIsLoading(false);
\* setError(null); setIsPlaying(true)
loadSucceeded(h, s, allowed) ==
    LET a == play(muteElement(clearLoadingTimeout(h), h.sess[s].video, h.sess[s].isMuted),
                  h.sess[s].video, allowed)
    IN  noteSucceeded(setIsPlaying(setError(setIsLoading(a, FALSE), NoError), TRUE), s)

\* the loadedmetadata listeners (lines 155-166 and 317-328) and the
\* MANIFEST_PARSED handler: guarded by isMountedRef
onLoadedMetadata(h, s, allowed) ==
    IF ~h.isMountedRef THEN h ELSE loadSucceeded(h, s, allowed)

onManifestParsed(h, s, allowed) ==
    IF ~h.isMountedRef THEN h ELSE loadSucceeded(h, s, allowed)

\* the catch block of initializePlayer
catchInitError(h, message) ==
    setError(setIsLoading(clearLoadingTimeout(h), FALSE), message)

\* the callback of the load-deadline timer
onLoadTimeout(h) ==
    IF h.isMountedRef
    THEN destroyPlayer(setError(setIsLoading(h, FALSE), PLAYER_LOAD_TIMEOUT_MSG))
    ELSE h

\* the event an engine hands to its error handler: data.fatal and data.type
\* of hls.js, event.detail.severity of Shaka (CRITICAL is fatal)
errorEvent(h, fatal, type) ==
    [h EXCEPT !.lastEvent = [fatal |-> IF fatal THEN "fatal" ELSE "nonfatal",
                             type |-> type, call |-> "none"]]

\* hls.startLoad() / hls.recoverMediaError(), recorded with an observed event
recoveryCall(h, call) ==
    IF h.lastEvent.fatal = "none" THEN h ELSE [h EXCEPT !.lastEvent.call = call]

\* Hls.Events.ERROR handler with a fatal network error taken to the default
\* branch of the switch
onHlsError_NoRecovery(h, fatal, type) ==
    IF ~h.isMountedRef THEN h
    ELSE IF ~fatal THEN h
    ELSE LET c == clearLoadingTimeout(h)
         IN  IF type = "mediaError"
             THEN recoveryCall(c, "recoverMediaError")
             ELSE destroyPlayer(setIsLoading(setError(c, ErrHlsFatal), FALSE))

\* Hls.Events.ERROR handler
onHlsError(h, fatal, type) ==
    IF ~h.isMountedRef THEN h
    ELSE IF ~fatal THEN h
    ELSE LET c == clearLoadingTimeout(h)
         IN  IF type = "networkError"
             THEN recoveryCall(c, "startLoad")
             ELSE IF type = "mediaError"
             THEN recoveryCall(c, "recoverMediaError")
             ELSE destroyPlayer(setIsLoading(setError(c, ErrHlsFatal), FALSE))

\* the 'error' listener of the shaka.Player
onShakaError(h, errorCode) ==
    destroyPlayer(setIsLoading(setError(clearLoadingTimeout(h), ShakaMessage(errorCode)), FALSE))

setPc(h, s, pc) == [h EXCEPT !.sess[s].pc = pc]

\* video.src = url; video.addEventListener('loadedmetadata', ..., {once: true})
playNatively(h, s) ==
    [loadElement(h, h.sess[s].video) EXCEPT
              !.playerTypeRef = "native",
              !.videoSrc[h.sess[s].video] = TRUE,
              !.metaListeners = @ \cup {s},
              !.sess[s].pc = "done"]

\* initHlsPlayer after the import of hls.js
initHlsAfterImport(h, s) ==
    IF hlsSupport = "mse"
    THEN [loadElement(h, h.sess[s].video) EXCEPT
              !.engine[s] = "live", !.hlsRef = s, !.sess[s].pc = "hlsLoading"]
    ELSE IF hlsSupport = "native"
    THEN playNatively(h, s)
    ELSE setPc(catchInitError(h, ErrHlsUnsupported), s, "done")

\* initShakaPlayer with the ClearKey configuration moved after player.load
constructShaka_LoadFirst(h, s) ==
    [loadElement(h, h.sess[s].video) EXCEPT
              !.engine[s] = "live", !.shakaPlayerRef = s, !.sess[s].pc = "load",
              !.calls[s] = <<"configure", "addEventListener", "load">>
                              \o (IF configureClearKeys(h.sess[s].drmInfo).configured
                                  THEN <<"configureClearKeys">> ELSE <<>>)]

\* initShakaPlayer from new shaka.Player(video) to the call of player.load
constructShaka(h, s) ==
    [loadElement(h, h.sess[s].video) EXCEPT
              !.engine[s] = "live", !.shakaPlayerRef = s, !.sess[s].pc = "load",
              !.calls[s] = <<"configure">>
                              \o (IF configureClearKeys(h.sess[s].drmInfo).configured
                                  THEN <<"configureClearKeys">> ELSE <<>>)
                              \o <<"addEventListener", "load">>]

\* initShakaPlayer after the import of shaka-player
initShakaAfterImport(h, s) ==
    IF ~shakaSupported
    THEN setPc(catchInitError(h, ErrShakaUnsupported), s, "done")
    ELSE IF h.shakaPlayerRef # 0
    THEN setPc(destroyEngine(h, h.shakaPlayerRef), s, "awaitDestroy")
    ELSE constructShaka(h, s)

\* initShakaPlayer after await player.load(url)
afterShakaLoad(h, s, allowed) == setPc(loadSucceeded(h, s, allowed), s, "done")

\* initializePlayer with the test of the source missing from its guard
initializePlayer_NoSourceGuard(h) ==
    IF h.videoRef = 0
    THEN setIsLoading(setError(h, ErrNoSource), FALSE)
    ELSE LET s  == h.nextId
             d  == detectStreamType(h.source.src)
             a  == destroyPlayer(h)
             b  == setIsPlaying(setError(setIsLoading(a, TRUE), NoError), FALSE)
             c  == [b EXCEPT !.loadingTimeoutRef = s, !.timers = @ \cup {s},
                             !.nextId = s + 1,
                             !.sess[s] = [pc |-> "start", type |-> d.type,
                                          video |-> h.videoRef,
                                          drmInfo |-> d.drmInfo,
                                          src |-> h.source.src,
                                          isMuted |-> h.isMuted]]
         IN  IF d.type = "dash"
             THEN [c EXCEPT !.playerTypeRef = "shaka", !.sess[s].pc = "importShaka"]
             ELSE IF d.type = "hls"
             THEN [c EXCEPT !.playerTypeRef = "hls", !.sess[s].pc = "importHls"]
             ELSE playNatively(c, s)

\* initializePlayer up to its first await
initializePlayer(h) ==
    IF ~h.source.present \/ h.videoRef = 0
    THEN setIsLoading(setError(h, ErrNoSource), FALSE)
    ELSE LET s  == h.nextId
             d  == detectStreamType(h.source.src)
             a  == destroyPlayer(h)
             b  == setIsPlaying(setError(setIsLoading(a, TRUE), NoError), FALSE)
             c  == [b EXCEPT !.loadingTimeoutRef = s, !.timers = @ \cup {s},
                             !.nextId = s + 1,
                             !.sess[s] = [pc |-> "start", type |-> d.type,
                                          video |-> h.videoRef,
                                          drmInfo |-> d.drmInfo,
                                          src |-> h.source.src,
                                          isMuted |-> h.isMuted]]
         IN  IF d.type = "dash"
             THEN [c EXCEPT !.playerTypeRef = "shaka", !.sess[s].pc = "importShaka"]
             ELSE IF d.type = "hls"
             THEN [c EXCEPT !.playerTypeRef = "hls", !.sess[s].pc = "importHls"]
             ELSE playNatively(c, s)

\* the cleanup of the source effect
effectCleanup(h) == destroyPlayer([h EXCEPT !.isMountedRef = FALSE])

\* the body of the source effect
effectBody(h) == initializePlayer([h EXCEPT !.isMountedRef = TRUE])

\* The render that follows a handler: the error view has no <video>, so
\* videoRef.current is null while it is shown, and a fresh element is
\* created when the player view comes back.
Render(h) ==
    IF h.phase # "mounted" THEN h
    ELSE IF h.error # NoError /\ ~h.isLoading
    THEN [h EXCEPT !.videoRef = 0, !.playing = @ \ {h.videoRef},
                   !.videoMuted = FALSE, !.videoVolume = 100]
    ELSE IF h.videoRef = 0
    THEN [h EXCEPT !.videoCount = @ + 1, !.videoRef = h.videoCount + 1,
                   !.videoMuted = FALSE, !.videoVolume = 100]
    ELSE h

Apply(h, op, s) ==
        /\ h.videoCount <= MaxVideos
        /\ phase' = h.phase
        /\ source' = h.source
        /\ videoRef' = h.videoRef
        /\ videoCount' = h.videoCount
        /\ videoSrc' = h.videoSrc
        /\ hlsRef' = h.hlsRef
        /\ shakaPlayerRef' = h.shakaPlayerRef
        /\ playerTypeRef' = h.playerTypeRef
        /\ isMountedRef' = h.isMountedRef
        /\ loadingTimeoutRef' = h.loadingTimeoutRef
        /\ timers' = h.timers
        /\ engine' = h.engine
        /\ destroyCalls' = h.destroyCalls
        /\ sess' = h.sess
        /\ nextId' = h.nextId
        /\ metaListeners' = h.metaListeners
        /\ isLoading' = h.isLoading
        /\ error' = h.error
        /\ isPlaying' = h.isPlaying
        /\ lateSetter' = h.lateSetter
        /\ unmountedLoading' = h.unmountedLoading
        /\ playing' = h.playing
        /\ lastPlay' = h.lastPlay
        /\ lastEvent' = h.lastEvent
        /\ succeeded' = h.succeeded
        /\ calls' = h.calls
        /\ isMuted' = h.isMuted
        /\ volume' = h.volume
        /\ currentTime' = h.currentTime
        /\ duration' = h.duration
        /\ videoMuted' = h.videoMuted
        /\ videoVolume' = h.videoVolume
        /\ last' = [op |-> op, s |-> s]
        /\ UNCHANGED <<hlsSupport, shakaSupported, rawUrl, hint, resolved, onErrorCall,
                       player, pageProtocol>>

\* a step of the canonical component: the handler, then the render
Commit(h0, op, s) == Apply(Render(h0), op, s)

---------------------------------------------------------------------------
(* Initial state: the component after its first render, before the source  *)
(* effect has run.                                                          *)

IdleSession ==
    [pc |-> "idle", type |-> "none", video |-> 0, drmInfo |-> NoDrm, src |-> <<>>,
     isMuted |-> FALSE]

ComponentInit ==
    /\ phase = "new"
    /\ source = NoSource
    /\ videoRef = 1
    /\ videoCount = 1
    /\ videoSrc = [e \in 1..(MaxVideos + 1) |-> FALSE]
    /\ hlsRef = 0
    /\ shakaPlayerRef = 0
    /\ playerTypeRef = "null"
    /\ isMountedRef = TRUE
    /\ loadingTimeoutRef = 0
    /\ timers = {}
    /\ engine = [s \in Sessions |-> "none"]
    /\ destroyCalls = [s \in Sessions |-> 0]
    /\ sess = [s \in Sessions |-> IdleSession]
    /\ nextId = 1
    /\ metaListeners = {}
    /\ isLoading = FALSE
    /\ error = NoError
    /\ isPlaying = FALSE
    /\ hlsSupport \in {"mse", "native", "none"}
    /\ shakaSupported \in BOOLEAN
    /\ lateSetter = FALSE
    /\ unmountedLoading = FALSE
    /\ playing = {}
    /\ lastPlay = "none"
    /\ lastEvent = NoEvent
    /\ succeeded = {}
    /\ calls = [s \in Sessions |-> <<>>]
    /\ isMuted = FALSE
    /\ volume = 75
    /\ currentTime = 0
    /\ duration = 0
    /\ videoMuted = FALSE
    /\ videoVolume = 100
    /\ last = [op |-> "Init", s |-> 0]

Init ==
    /\ ComponentInit
    /\ rawUrl = <<>>
    /\ hint = "none"
    /\ resolved = NotResolved
    /\ player = "part_000"
    /\ pageProtocol = "https:"
    /\ onErrorCall = NoErrorCall

---------------------------------------------------------------------------
(* Actions *)

\* the bound on the number of sessions: initializePlayer may start one more
CanStart(src) == ~src.present \/ videoRef = 0 \/ nextId <= MaxSessions

\* the first run of the source effect
Mount(src) ==
    /\ phase = "new"
    /\ CanStart(src)
    /\ Commit(effectBody([St EXCEPT !.phase = "mounted", !.source = src]), "Mount", nextId)

\* the source prop changes: the effect's cleanup, then its body
NewSource(src) ==
    /\ phase = "mounted"
    /\ CanStart(src)
    /\ Commit(effectBody(effectCleanup([St EXCEPT !.source = src])), "NewSource", nextId)

\* the Retry button of the error view
handleRetry ==
    /\ phase = "mounted"
    /\ error # NoError /\ ~isLoading
    /\ CanStart(source)
    /\ Commit(initializePlayer(St), "Retry", nextId)

\* the component is unmounted: the effect's cleanup
Unmount ==
    /\ phase = "mounted"
    /\ Commit([effectCleanup(St) EXCEPT !.phase = "unmounted",
                                        !.unmountedLoading = isLoading],
              "Unmount", 0)

\* continuations of one module's import run in the order of the import calls
FirstAt(s, pc) ==
    /\ sess[s].pc = pc
    /\ \A r \in Sessions : r < s => sess[r].pc # pc

ImportHlsResolved(s) ==
    /\ FirstAt(s, "importHls")
    /\ Commit(initHlsAfterImport(St, s), "ImportHlsResolved", s)

ImportShakaResolved(s) ==
    /\ FirstAt(s, "importShaka")
    /\ Commit(initShakaAfterImport(St, s), "ImportShakaResolved", s)

\* the dynamic import fails (the chunk cannot be fetched)
ImportRejected(s) ==
    /\ FirstAt(s, "importHls") \/ FirstAt(s, "importShaka")
    /\ Commit(setPc(catchInitError(St, ErrImport), s, "done"), "ImportRejected", s)

\* await shakaPlayerRef.current.destroy() returns
ShakaDestroyAwaited(s) ==
    /\ sess[s].pc = "awaitDestroy"
    /\ Commit(constructShaka(St, s), "ShakaDestroyAwaited", s)

\* player.load resolves; the load of a destroyed player only rejects
ShakaLoadResolved(s, allowed) ==
    /\ sess[s].pc = "load"
    /\ engine[s] = "live"
    /\ Commit(afterShakaLoad(St, s, allowed), "ShakaLoadResolved", s)

\* player.load rejects: the load failed, or the player was destroyed meanwhile
ShakaLoadRejected(s) ==
    /\ sess[s].pc = "load"
    /\ Commit(setPc(catchInitError(St, ErrLoad), s, "done"), "ShakaLoadRejected", s)

\* a live shaka.Player dispatches an 'error' event
ShakaErrorEvent(s, errorCode) ==
    /\ engine[s] = "live"
    /\ sess[s].type = "dash"
    /\ Commit(onShakaError(St, errorCode), "ShakaErrorEvent", s)

\* the same event, its severity observed (CRITICAL or RECOVERABLE)
ShakaErrorObserved(s, errorCode, critical) ==
    /\ engine[s] = "live"
    /\ sess[s].type = "dash"
    /\ Commit(onShakaError(errorEvent(St, critical, "shaka"), errorCode),
              "ShakaErrorEvent", s)

\* a live Hls instance emits MANIFEST_PARSED, once for its manifest
HlsManifestParsed(s, allowed) ==
    /\ engine[s] = "live"
    /\ sess[s].pc = "hlsLoading"
    /\ Commit(setPc(onManifestParsed(St, s, allowed), s, "done"), "HlsManifestParsed", s)

\* a live Hls instance emits ERROR
HlsErrorEvent(s, fatal, type) ==
    /\ engine[s] = "live"
    /\ sess[s].type = "hls"
    /\ Commit(onHlsError(St, fatal, type), "HlsErrorEvent", s)

\* the same event, data.fatal and data.type observed
HlsErrorObserved(s, fatal, type) ==
    /\ engine[s] = "live"
    /\ sess[s].type = "hls"
    /\ Commit(onHlsError(errorEvent(St, fatal, type), fatal, type), "HlsErrorEvent", s)

\* the load deadline of session t expires
LoadTimeoutFired(t) ==
    /\ t \in timers
    /\ Commit(onLoadTimeout([St EXCEPT !.timers = @ \ {t}]), "LoadTimeoutFired", t)

ListenersOn(e) == {s \in metaListeners : sess[s].video = e}

RECURSIVE FireListeners(_, _, _)
FireListeners(h, L, allowed) ==
    IF L = {} THEN h
    ELSE LET s == Min(L)
         IN  FireListeners(onLoadedMetadata([h EXCEPT !.metaListeners = @ \ {s}], s, allowed),
                           L \ {s}, allowed)

\* <video> element e fires loadedmetadata: its once-listeners run in the
\* order they were added
LoadedMetadata(e, allowed) ==
    /\ ListenersOn(e) # {}
    /\ Commit(FireListeners(St, ListenersOn(e), allowed), "LoadedMetadata",
              Max(ListenersOn(e)))

\* the steps of the component other than the engines' error events
SessionSteps ==
    \/ \E src \in Sources \cup {NoSource} : Mount(src)
    \/ \E src \in Sources \cup {NoSource} : NewSource(src)
    \/ handleRetry
    \/ Unmount
    \/ \E s \in Sessions : ImportHlsResolved(s)
    \/ \E s \in Sessions : ImportShakaResolved(s)
    \/ \E s \in Sessions : ImportRejected(s)
    \/ \E s \in Sessions : ShakaDestroyAwaited(s)
    \/ \E s \in Sessions, allowed \in BOOLEAN : ShakaLoadResolved(s, allowed)
    \/ \E s \in Sessions : ShakaLoadRejected(s)
    \/ \E s \in Sessions, allowed \in BOOLEAN : HlsManifestParsed(s, allowed)
    \/ \E t \in Sessions : LoadTimeoutFired(t)
    \/ \E e \in 1..MaxVideos, allowed \in BOOLEAN : LoadedMetadata(e, allowed)

HlsErrorTypes == {"networkError", "mediaError", "otherError"}

Next ==
    \/ SessionSteps
    \/ \E s \in Sessions, c \in ShakaCodes : ShakaErrorEvent(s, c)
    \/ \E s \in Sessions, fatal \in BOOLEAN, type \in HlsErrorTypes :
          HlsErrorEvent(s, fatal, type)

Spec == Init /\ [][Next]_vars

---------------------------------------------------------------------------
(* The component in a browser that supports both engines, with the detail  *)
(* of every engine error event observed.                                    *)

InitErrors ==
    /\ Init
    /\ hlsSupport = "mse"
    /\ shakaSupported

\* the codes of the observed Shaka events: a network error and an unclassified one
ObservedCodes == {c \in ShakaCodes : c >= 6000}

NextErrors ==
    \/ SessionSteps
    \/ \E s \in Sessions, c \in ObservedCodes, critical \in BOOLEAN :
          ShakaErrorObserved(s, c, critical)
    \/ \E s \in Sessions, fatal \in BOOLEAN, type \in HlsErrorTypes :
          HlsErrorObserved(s, fatal, type)

SpecErrors == InitErrors /\ [][NextErrors]_vars

---------------------------------------------------------------------------
(* The resolver on its own: a source is drawn from a bounded set of raw     *)
(* URLs and type hints, and each player resolves it.                        *)

PathTokens ==
    {"https://x/a", ".mpd", ".MPD", "/dash/", ".m3u8", "/hls/", ".mp4", ".webm", "|"}

RECURSIVE SeqsUpTo(_, _)
SeqsUpTo(S, n) ==
    IF n = 0 THEN {<<>>}
    ELSE LET shorter == SeqsUpTo(S, n - 1)
         IN  shorter \cup {Append(q, x) : q \in shorter, x \in S}

Bases == SeqsUpTo(PathTokens, MaxBaseLen)

Separators == {<<>>, <<"|">>, <<"?", "|">>}

HexStrings == {"aa11", "bb22"}

Licenses ==
    {<<kid, ":", key>> : kid \in HexStrings, key \in HexStrings}
        \cup {<<>>, <<"malformed">>, <<"aa11", ":">>, <<":", "bb22">>,
               <<"aa11", ":", "bb22", ":", "cc33">>}

Schemes == {<<>>, <<"clearkey">>, <<"widevine">>}

DrmBlocks ==
    {<<"drmScheme=">> \o sc \o <<"&", "drmLicense=">> \o lic :
         sc \in Schemes, lic \in Licenses}
        \cup {<<>>, <<"drmScheme=", "clearkey">>, <<"drmLicense=", "aa11", ":", "bb22">>,
               <<"drmLicense=", "aa11", ":", "bb22", "&", "drmScheme=", "clearkey">>}

\* what may follow the DRM block: nothing, or a second "|" and more text
Trailers == {<<>>, <<"|", ".m3u8">>}

Urls ==
    {base \o sep \o block \o trailer :
         base \in Bases, sep \in Separators, block \in DrmBlocks, trailer \in Trailers}

Hints == {"none", "hls", "dash", "mp4"}

InitResolve ==
    /\ ComponentInit
    /\ hlsSupport = "mse"
    /\ shakaSupported
    /\ rawUrl \in Urls
    /\ hint \in Hints
    /\ resolved = NotResolved
    /\ player = "part_000"
    /\ pageProtocol = "https:"
    /\ onErrorCall = NoErrorCall

ComponentIdle ==
    UNCHANGED <<phase, source, videoRef, videoCount, videoSrc, hlsRef, shakaPlayerRef,
                playerTypeRef, isMountedRef, loadingTimeoutRef, timers, engine,
                destroyCalls, sess, nextId, metaListeners, isLoading, error,
                isPlaying, hlsSupport, shakaSupported, lateSetter, unmountedLoading,
                playing, lastPlay, lastEvent, succeeded, calls, player,
                pageProtocol, isMuted, volume, currentTime, duration, videoMuted,
                videoVolume, last>>

\* the canonical player resolves the source
ResolveCanonical ==
    /\ resolved = NotResolved
    /\ resolved' = selectEngine(Source(rawUrl, hint))
    /\ UNCHANGED <<rawUrl, hint, onErrorCall>>
    /\ ComponentIdle

\* the Shaka-only variant resolves the source
ResolveShakaOnly ==
    /\ resolved = NotResolved
    /\ resolved' = loadStream(Source(rawUrl, hint))
    /\ UNCHANGED <<rawUrl, hint, onErrorCall>>
    /\ ComponentIdle

NextResolve == ResolveCanonical \/ ResolveShakaOnly

SpecResolve == InitResolve /\ [][NextResolve]_vars

---------------------------------------------------------------------------
(* The Shaka-only player, src/src/components/StreamPlayer.tsx: its source   *)
(* effect and the continuations of loadStream.                              *)

ErrMixedContent ==
    "Insecure (http) stream blocked by the browser on an https page. Use an https URL or a proxy."
ErrBrowser == "Browser not supported"
ErrFailed == "Failed to load stream"
\* `Failed to load stream: ${message || "Unknown error"}`
ErrFailedDetail == "Failed to load stream: message"

\* the scheme a first token of a URL starts with
SchemeOf(tok) ==
    IF tok = "http://x/a" THEN "http://"
    ELSE IF tok = "https://x/a" THEN "https://"
    ELSE ""

\* source.src.startsWith(prefix), for a prefix that is a scheme
startsWith(url, prefix) == url # <<>> /\ SchemeOf(url[1]) = prefix

\* loadStream without the mixed-content check
loadStreamStart_NoMixedContentCheck(h, s) ==
    LET r == loadStream(Source(h.source.src, h.source.type))
    IN  IF r.engine = "shaka"
        THEN IF ~shakaSupported
             THEN setIsLoading(setError(h, ErrBrowser), FALSE)
             ELSE [h EXCEPT !.engine[s] = "live", !.calls[s] = <<"attach">>,
                            !.sess[s].pc = "attach"]
        ELSE setIsLoading([h EXCEPT !.videoSrc[h.videoRef] = TRUE], FALSE)

\* loadStream up to its first await
loadStreamStart(h, s) ==
    IF pageProtocol = "https:" /\ startsWith(h.source.src, "http://")
    THEN setIsLoading(setError(h, ErrMixedContent), FALSE)
    ELSE LET r == loadStream(Source(h.source.src, h.source.type))
         IN  IF r.engine = "shaka"
             THEN IF ~shakaSupported
                  THEN setIsLoading(setError(h, ErrBrowser), FALSE)
                  ELSE [h EXCEPT !.engine[s] = "live", !.calls[s] = <<"attach">>,
                                 !.sess[s].pc = "attach"]
             ELSE setIsLoading([h EXCEPT !.videoSrc[h.videoRef] = TRUE], FALSE)

\* the source effect of the Shaka-only player; it returns no cleanup
streamEffect(h) ==
    IF h.videoRef = 0 \/ ~h.source.present THEN h
    ELSE LET s == h.nextId
             a == setError(setIsLoading(h, TRUE), NoError)
             b == [a EXCEPT !.nextId = s + 1,
                            !.sess[s] = [pc |-> "done", type |-> h.source.type,
                                         video |-> h.videoRef, drmInfo |-> NoDrm,
                                         src |-> h.source.src, isMuted |-> FALSE]]
         IN  loadStreamStart(b, s)

\* loadStream after await player.attach(video), up to await player.load
loadStreamAfterAttach(h, s) ==
    LET r == loadStream(Source(h.sess[s].src, h.sess[s].type))
    IN  [h EXCEPT !.calls[s] = @ \o (IF r.keys.configured
                                     THEN <<"configureClearKeys">> ELSE <<>>)
                                \o <<"addEventListener", "load">>,
                  !.sess[s].pc = "load"]

\* the outer catch of loadStream
loadStreamCatch(h, s) == setPc(setIsLoading(setError(h, ErrFailed), FALSE), s, "done")

\* loadStream after await player.load(streamUrl)
loadStreamAfterLoad(h, s) == setPc(setIsLoading(h, FALSE), s, "done")

\* the catch around await player.load(streamUrl)
loadStreamLoadCatch(h, s) ==
    setPc(setIsLoading(setError(h, ErrFailedDetail), FALSE), s, "done")

\* the 'error' listener of the player
onPlayerError(h) == setIsLoading(setError(h, ErrFailedDetail), FALSE)

ShakaOnly == player = "StreamPlayer.tsx"

MountShakaOnly(src) ==
    /\ ShakaOnly
    /\ phase = "new"
    /\ CanStart(src)
    /\ Apply(streamEffect([St EXCEPT !.phase = "mounted", !.source = src]), "Mount", nextId)

\* the source prop changes: the effect runs again
NewSourceShakaOnly(src) ==
    /\ ShakaOnly
    /\ phase = "mounted"
    /\ CanStart(src)
    /\ Apply(streamEffect([St EXCEPT !.source = src]), "NewSource", nextId)

\* the component is unmounted: the source effect has no cleanup to run
UnmountShakaOnly ==
    /\ ShakaOnly
    /\ phase = "mounted"
    /\ Apply([St EXCEPT !.phase = "unmounted"], "Unmount", 0)

AttachResolved(s) ==
    /\ ShakaOnly
    /\ sess[s].pc = "attach"
    /\ Apply(loadStreamAfterAttach(St, s), "AttachResolved", s)

AttachRejected(s) ==
    /\ ShakaOnly
    /\ sess[s].pc = "attach"
    /\ Apply(loadStreamCatch(St, s), "AttachRejected", s)

LoadResolved(s) ==
    /\ ShakaOnly
    /\ sess[s].pc = "load"
    /\ Apply(loadStreamAfterLoad(St, s), "LoadResolved", s)

LoadRejected(s) ==
    /\ ShakaOnly
    /\ sess[s].pc = "load"
    /\ Apply(loadStreamLoadCatch(St, s), "LoadRejected", s)

\* a player whose listener is registered dispatches an 'error' event
PlayerErrorEvent(s) ==
    /\ ShakaOnly
    /\ engine[s] = "live"
    /\ includes(calls[s], "addEventListener")
    /\ Apply(onPlayerError(St), "PlayerErrorEvent", s)

\* base + '?|drmScheme=clearkey&drmLicense=' + keyId + ':' + key
ClearKeyUrl(base, keyId, key) ==
    base \o <<"?", "|", "drmScheme=", "clearkey", "&", "drmLicense=", keyId, ":", key>>

\* the sources given to the two players: DASH with and without a ClearKey
\* block, over https and over http, and a progressive file
PlayerSources ==
    { Source(<<"https://x/a", ".mpd">>, "none"),
      Source(ClearKeyUrl(<<"https://x/a", ".mpd">>, "aa11", "bb22"), "none"),
      Source(ClearKeyUrl(<<"http://x/a", ".mpd">>, "aa11", "bb22"), "none"),
      Source(<<"http://x/a", ".mp4">>, "none") }

\* part_000 never looks at the scheme of the URL
SecureSources == {src \in PlayerSources : ~startsWith(src.src, "http://")}

InitPlayers ==
    /\ ComponentInit
    /\ hlsSupport = "mse"
    /\ rawUrl = <<>>
    /\ hint = "none"
    /\ resolved = NotResolved
    /\ onErrorCall = NoErrorCall
    /\ player \in {"part_000", "StreamPlayer.tsx"}
    /\ pageProtocol \in {"https:", "http:"}
    /\ (player = "part_000") => (pageProtocol = "https:" /\ shakaSupported)

NextPlayers ==
    \/ \E src \in SecureSources \cup {NoSource} : player = "part_000" /\ Mount(src)
    \/ \E src \in SecureSources \cup {NoSource} : player = "part_000" /\ NewSource(src)
    \/ player = "part_000" /\ handleRetry
    \/ player = "part_000" /\ Unmount
    \/ \E s \in Sessions : player = "part_000" /\ ImportShakaResolved(s)
    \/ \E s \in Sessions : player = "part_000" /\ ImportRejected(s)
    \/ \E s \in Sessions : player = "part_000" /\ ShakaDestroyAwaited(s)
    \/ \E s \in Sessions, allowed \in BOOLEAN :
          player = "part_000" /\ ShakaLoadResolved(s, allowed)
    \/ \E t \in Sessions : player = "part_000" /\ LoadTimeoutFired(t)
    \/ \E s \in Sessions : player = "part_000" /\ ShakaLoadRejected(s)
    \/ \E s \in Sessions : player = "part_000" /\ ShakaErrorEvent(s, 6001)
    \/ \E src \in PlayerSources \cup {NoSource} : MountShakaOnly(src)
    \/ \E src \in PlayerSources \cup {NoSource} : NewSourceShakaOnly(src)
    \/ UnmountShakaOnly
    \/ \E s \in Sessions : AttachResolved(s)
    \/ \E s \in Sessions : AttachRejected(s)
    \/ \E s \in Sessions : LoadResolved(s)
    \/ \E s \in Sessions : LoadRejected(s)
    \/ \E s \in Sessions : PlayerErrorEvent(s)

SpecPlayers == InitPlayers /\ [][NextPlayers]_vars

---------------------------------------------------------------------------
(* The user intents and the transport events of the <video> element.       *)

\* video.pause()
pause(h, e) == [h EXCEPT !.playing = @ \ {e}]

togglePlay(h, allowed) ==
    IF h.videoRef = 0 THEN h
    ELSE IF h.isPlaying THEN pause(h, h.videoRef)
    ELSE play(h, h.videoRef, allowed)

toggleMute(h) ==
    IF h.videoRef = 0 THEN h
    ELSE setIsMuted([h EXCEPT !.videoMuted = ~h.isMuted], ~h.isMuted)

\* value[0] is a percentage; video.volume = value[0] / 100
handleVolumeChange(h, value) ==
    IF h.videoRef = 0 THEN h
    ELSE LET a == setVolume([h EXCEPT !.videoVolume = value], value)
         IN  IF value = 0 THEN setIsMuted(a, TRUE)
             ELSE IF h.isMuted THEN setIsMuted(a, FALSE)
             ELSE a

\* video.currentTime = value[0]; setCurrentTime(value[0])
handleSeek(h, value) ==
    IF h.videoRef = 0 THEN h
    ELSE setCurrentTime(h, value)

handleTimeUpdate(h, t) == setCurrentTime(h, t)
handleDurationChange(h, d) == setDuration(h, d)
handlePlay(h) == setIsPlaying(h, TRUE)
handlePause(h) == setIsPlaying(h, FALSE)

\* handleWaiting that also reports the player as paused
handleWaiting_Pauses(h) == setIsPlaying(setIsLoading(h, TRUE), FALSE)

handleWaiting(h) == setIsLoading(h, TRUE)
handleCanPlay(h) == setIsLoading(h, FALSE)

\* the transport effect has no dependencies: its listeners are on the
\* <video> of the first render, from the mount to the unmount
HasListeners(e) == phase = "mounted" /\ e = 1

\* the play or pause event that the element dispatches when its paused flag
\* was changed by play() or pause()
transportEvent(h0, h) ==
    IF HasListeners(h0.videoRef) /\ (h0.videoRef \in h.playing) # (h0.videoRef \in h0.playing)
    THEN IF h0.videoRef \in h.playing THEN handlePlay(h) ELSE handlePause(h)
    ELSE h

\* the render after a handler: initializePlayer is re-created when isMuted
\* changed (its dependencies, line 341), and the source effect, which
\* depends on initializePlayer, runs its cleanup and its body again
sourceEffectOnDeps(h0, h) ==
    IF h.phase = "mounted" /\ h.isMuted # h0.isMuted
    THEN effectBody(effectCleanup(h))
    ELSE h

\* whether the handler changes isMuted, so that a session may be started
ChangesMuted(h) == h.isMuted # isMuted

TogglePlay(allowed) ==
    /\ phase = "mounted"
    /\ Commit(transportEvent(St, togglePlay(St, allowed)), "togglePlay", 0)

ToggleMute ==
    /\ phase = "mounted"
    /\ ChangesMuted(toggleMute(St)) => CanStart(source)
    /\ Commit(sourceEffectOnDeps(St, toggleMute(St)), "toggleMute", 0)

HandleVolumeChange(value) ==
    /\ phase = "mounted"
    /\ ChangesMuted(handleVolumeChange(St, value)) => CanStart(source)
    /\ Commit(sourceEffectOnDeps(St, handleVolumeChange(St, value)),
              "handleVolumeChange", 0)

HandleSeek(value) ==
    /\ phase = "mounted"
    /\ Commit(handleSeek(St, value), "handleSeek", 0)

Waiting ==
    /\ HasListeners(videoRef)
    /\ Commit(handleWaiting(St), "waiting", 0)

CanPlay ==
    /\ HasListeners(videoRef)
    /\ Commit(handleCanPlay(St), "canplay", 0)

TimeUpdate(t) ==
    /\ HasListeners(videoRef)
    /\ Commit(handleTimeUpdate(St, t), "timeupdate", 0)

DurationChange(d) ==
    /\ HasListeners(videoRef)
    /\ Commit(handleDurationChange(St, d), "durationchange", 0)

\* the values of the volume slider, in percent
VolumeValues == {0, 50}

\* the positions of the seek slider and of the playback, in seconds
TimeValues == {0, 5}

SurfaceSources == {Src(<<"https://x/a", ".m3u8">>), Src(<<"https://x/a", ".mp4">>)}

InitSurface ==
    /\ Init
    /\ hlsSupport = "mse"
    /\ shakaSupported

NextSurface ==
    \/ \E src \in SurfaceSources : Mount(src)
    \/ \E src \in SurfaceSources : NewSource(src)
    \/ handleRetry
    \/ Unmount
    \/ \E s \in Sessions : ImportHlsResolved(s)
    \/ \E s \in Sessions, allowed \in BOOLEAN : HlsManifestParsed(s, allowed)
    \/ \E t \in Sessions : LoadTimeoutFired(t)
    \/ \E e \in 1..MaxVideos, allowed \in BOOLEAN : LoadedMetadata(e, allowed)
    \/ \E allowed \in BOOLEAN : TogglePlay(allowed)
    \/ ToggleMute
    \/ \E value \in VolumeValues : HandleVolumeChange(value)
    \/ \E value \in TimeValues : HandleSeek(value)
    \/ Waiting
    \/ CanPlay
    \/ \E t \in TimeValues : TimeUpdate(t)
    \/ \E d \in TimeValues : DurationChange(d)

SpecSurface == InitSurface /\ [][NextSurface]_vars

---------------------------------------------------------------------------
(* The error listener of the Shaka engine as a function of the error code. *)

\* the largest error code given to the listener; Shaka's codes are four-digit
MaxErrorCode == 7100

ErrorCodes == (0 - 2) .. MaxErrorCode

InitErrorCode ==
    /\ ComponentInit
    /\ hlsSupport = "mse"
    /\ shakaSupported
    /\ rawUrl = <<>>
    /\ hint = "none"
    /\ resolved = NotResolved
    /\ player = "part_000"
    /\ pageProtocol = "https:"
    /\ onErrorCall \in [errorCode : ErrorCodes, errorMessage : {NoMessage}]

\* const errorCode = event.detail.code; let errorMessage = ...
ClassifyErrorCode ==
    /\ onErrorCall.errorMessage = NoMessage
    /\ onErrorCall' = [onErrorCall EXCEPT !.errorMessage = ShakaMessage(onErrorCall.errorCode)]
    /\ UNCHANGED <<rawUrl, hint, resolved>>
    /\ ComponentIdle

NextErrorCode == ClassifyErrorCode

SpecErrorCode == InitErrorCode /\ [][NextErrorCode]_vars

---------------------------------------------------------------------------
(* Properties *)

LiveEngines == {s \in Sessions : engine[s] = "live"}

\* the session started by the latest run of initializePlayer
Latest == nextId - 1

SuccessOps == {"ShakaLoadResolved", "LoadedMetadata", "HlsManifestParsed"}

FailureOps == {"ShakaLoadRejected", "ImportRejected", "ImportHlsResolved",
               "ImportShakaResolved", "ShakaErrorEvent", "HlsErrorEvent"}

CallbackOps == SuccessOps \cup FailureOps \cup {"ShakaDestroyAwaited"}

LoadFailureMessages ==
    {ErrHlsUnsupported, ErrShakaUnsupported, ErrHlsFatal, ErrImport, ErrLoad}
        \cup {ShakaMessage(c) : c \in ShakaCodes}

\* C1: at every instant at most one engine instance (Hls or shaka.Player)
\* has been constructed and not yet destroyed.
C1_AtMostOneLiveEngine == Cardinality(LiveEngines) <= 1

\* C2: when the load deadline fires on a mounted component the session goes
\* to Error with the timeout message, isLoading false, and every live engine
\* is destroyed exactly once; a success signal delivered after that leaves
\* the timeout message in place and isPlaying false.
C2_TimeoutIsFinal ==
    [][ /\ (phase = "mounted" /\ isMountedRef /\ last'.op = "LoadTimeoutFired")
            => /\ error' = PLAYER_LOAD_TIMEOUT_MSG
               /\ ~isLoading'
               /\ \A s \in LiveEngines :
                      engine'[s] = "destroyed" /\ destroyCalls'[s] = 1
        /\ (phase = "mounted" /\ error = PLAYER_LOAD_TIMEOUT_MSG /\ ~isLoading
               /\ last'.op \in SuccessOps)
            => (error' = PLAYER_LOAD_TIMEOUT_MSG /\ ~isPlaying')
      ]_vars

\* C3: once a newer session has started, no callback or continuation of a
\* superseded session changes isLoading, error or isPlaying, or cancels the
\* newer session's load deadline.
C3_SupersededIsSilent ==
    [][ (phase = "mounted" /\ last'.op \in CallbackOps /\ last'.s < Latest)
            => /\ isLoading' = isLoading
               /\ error' = error
               /\ isPlaying' = isPlaying
               /\ (Latest \in timers => Latest \in timers')
      ]_vars

\* C4: after an unmount that happened while the session was Loading, no
\* state setter (setIsLoading, setError, setIsPlaying) is called any more.
C4_NoSetterAfterUnmount == unmountedLoading => ~lateSetter

\* C5: from the Error state, with a source present, the retry intent re-runs
\* initializePlayer from scratch: a new session starts, in Loading, with the
\* error cleared and a load deadline armed.
C5_RetryRestarts ==
    [][ (last'.op = "Retry" /\ source.present /\ error # ErrNoSource)
            => /\ nextId' = nextId + 1
               /\ isLoading'
               /\ error' = NoError
               /\ loadingTimeoutRef' = nextId
               /\ nextId \in timers'
      ]_vars

\* C6: in every state in Error after a load failure or a deadline expiry
\* (error set, isLoading false) both engine refs are null and no load
\* deadline is armed.
C6_ErrorMeansTornDown ==
    (phase = "mounted" /\ ~isLoading
        /\ error \in LoadFailureMessages \cup {PLAYER_LOAD_TIMEOUT_MSG})
    => (hlsRef = 0 /\ shakaPlayerRef = 0 /\ loadingTimeoutRef = 0 /\ timers = {})

\* C7: within one session, of deadline expiry and fatal load failure the one
\* that comes second changes neither the error message nor destroys an
\* engine again.
C7_SecondIsNoOp ==
    [][ (/\ phase = "mounted" /\ nextId = 2 /\ last'.s = 1 /\ ~isLoading
         /\ \/ error = PLAYER_LOAD_TIMEOUT_MSG /\ last'.op \in FailureOps
            \/ error \in LoadFailureMessages /\ last'.op = "LoadTimeoutFired")
            => (error' = error /\ destroyCalls' = destroyCalls)
      ]_vars

\* C8: every newSource, retry and unmount runs the teardown whatever the
\* state: the engines the refs held are destroyed and the deadline that was
\* armed is cancelled.
C8_TeardownAlwaysRuns ==
    [][ (\/ last'.op \in {"NewSource", "Unmount"}
         \/ last'.op = "Retry" /\ source.present)
            => /\ hlsRef # 0 => engine'[hlsRef] = "destroyed"
               /\ shakaPlayerRef # 0 => engine'[shakaPlayerRef] = "destroyed"
               /\ loadingTimeoutRef # 0 => loadingTimeoutRef \notin timers'
      ]_vars

\* C9: after the unmount no engine instance is alive and no load deadline
\* is armed.
C9_NothingAliveAfterUnmount ==
    phase = "unmounted" => (LiveEngines = {} /\ timers = {})

\* C10: destroyPlayer is idempotent: run twice in a row in any state, the
\* second run changes nothing, the refs, the deadline and the player type
\* are null after the first, and no engine's destroy() is invoked more than
\* once over the two runs.
C10_DestroyPlayerIdempotent ==
    LET a == destroyPlayer(St)
        b == destroyPlayer(a)
    IN  /\ b = a
        /\ a.hlsRef = 0 /\ a.shakaPlayerRef = 0
        /\ a.loadingTimeoutRef = 0 /\ a.playerTypeRef = "null"
        /\ \A s \in Sessions : b.destroyCalls[s] <= destroyCalls[s] + 1
        /\ \A s \in Sessions :
               (s = hlsRef \/ s = shakaPlayerRef) => b.engine[s] = "destroyed"

\* a state in which destroyPlayer has an engine to destroy whose load never
\* completed, and a deadline to cancel
C10_Witness ==
    /\ shakaPlayerRef # 0
    /\ engine[shakaPlayerRef] = "live"
    /\ sess[shakaPlayerRef].pc = "load"
    /\ loadingTimeoutRef # 0
    /\ loadingTimeoutRef \in timers

\* C11: on each of the three success paths (MANIFEST_PARSED, player.load
\* resolving, loadedmetadata) the load deadline is cancelled before the state
\* becomes playing: no session that reached playing has its deadline armed,
\* the step that reaches playing leaves isPlaying set and no deadline in
\* loadingTimeoutRef, and the deadline that fires is never that of a session
\* that reached playing.
C11_DeadlineCancelledOnSuccess ==
    /\ succeeded \cap timers = {}
    /\ (last.op \in SuccessOps /\ last.s \in succeeded)
           => (isPlaying /\ loadingTimeoutRef = 0)
    /\ (last.op = "LoadTimeoutFired") => (last.s \notin succeeded)

C11_Witness ==
    /\ phase = "mounted"
    /\ last.op = "HlsManifestParsed"
    /\ last.s \in succeeded
    /\ isPlaying
    /\ ~isLoading

\* C12: when video.play() is rejected at load success the rejection is
\* swallowed (error stays null) and the session is Ready, not Playing:
\* isPlaying is false while the <video> is paused.
C12_AutoplayRejectedIsReady ==
    [][ (phase = "mounted" /\ last'.op \in SuccessOps /\ lastPlay' = "rejected"
            /\ sess[last'.s].video \notin playing')
        => (error' = NoError /\ ~isPlaying')
      ]_vars

\* C13: with no source, initializePlayer sets the no-source error and
\* isLoading false, and starts nothing: no session, no engine constructed,
\* no deadline armed, no video.src assigned.
C13_NoSourceStartsNothing ==
    [][ (last'.op \in {"Mount", "NewSource", "Retry"} /\ ~source'.present)
        => /\ error' = ErrNoSource
           /\ ~isLoading'
           /\ nextId' = nextId
           /\ sess' = sess
           /\ \A s \in Sessions : engine'[s] = "live" => engine[s] = "live"
           /\ timers' \subseteq timers
           /\ loadingTimeoutRef' \in {0, loadingTimeoutRef}
           /\ videoSrc' = videoSrc
           /\ metaListeners' = metaListeners
      ]_vars

C13_Witness ==
    /\ phase = "mounted"
    /\ last.op = "NewSource"
    /\ ~source.present
    /\ nextId > 1
    /\ error = ErrNoSource
    /\ ~isLoading

---------------------------------------------------------------------------
(* Properties of the resolver (SpecResolve) *)

ByCanonical == resolved.by = "part_000"

lowerClean == toLowerCase(resolved.cleanUrl)

\* the classification order as the specification states it
FirstMatch(urlLower, drm) ==
    CASE includes(urlLower, ".mpd") \/ includes(urlLower, "/dash/") \/ drm -> "dash"
      [] OTHER ->
         CASE includes(urlLower, ".m3u8") \/ includes(urlLower, "/hls/") -> "hls"
           [] OTHER ->
              CASE includes(urlLower, ".mp4") \/ includes(urlLower, ".webm") -> "native"
                [] OTHER -> "hls"

\* C14: the type returned by detectStreamType is the first match, on the
\* lower-cased clean URL, of: '.mpd', '/dash/' or inline DRM resolved -> dash;
\* '.m3u8' or '/hls/' -> hls; '.mp4' or '.webm' -> native; otherwise hls.  It
\* returns a kind for every input, and the empty string gives hls with no DRM.
C14_FirstMatchWins ==
    ByCanonical =>
        /\ resolved.type = FirstMatch(lowerClean, resolved.drmInfo # NoDrm)
        /\ resolved.type \in {"dash", "hls", "native"}
        /\ (rawUrl = <<>>) =>
               (resolved.type = "hls" /\ resolved.drmInfo = NoDrm
                   /\ resolved.cleanUrl = <<>>)

C14_Witness ==
    /\ ByCanonical
    /\ includes(lowerClean, ".m3u8")
    /\ includes(resolved.cleanUrl, ".MPD")
    /\ resolved.drmInfo = NoDrm
    /\ resolved.type = "dash"

\* C15 as stated: for every raw URL that contains '.m3u8' or '/hls/',
\* detectStreamType returns kind hls.
C15_HlsMarkerMeansHls ==
    (ByCanonical /\ (includes(rawUrl, ".m3u8") \/ includes(rawUrl, "/hls/")))
        => resolved.type = "hls"

\* C15, amended: for every raw URL whose clean URL, lower-cased, contains
\* '.m3u8' or '/hls/' and neither '.mpd' nor '/dash/', and in which no inline
\* DRM info is resolved, detectStreamType returns kind hls.
C15_HlsMarkerAloneMeansHls ==
    (/\ ByCanonical
     /\ includes(lowerClean, ".m3u8") \/ includes(lowerClean, "/hls/")
     /\ ~includes(lowerClean, ".mpd") /\ ~includes(lowerClean, "/dash/")
     /\ resolved.drmInfo = NoDrm)
        => resolved.type = "hls"

C15_Witness ==
    /\ ByCanonical
    /\ includes(resolved.cleanUrl, "/hls/")
    /\ includes(resolved.cleanUrl, ".mp4")
    /\ includes(rawUrl, "|")
    /\ resolved.type = "hls"

\* a license that is a keyId:key pair: exactly one ':', text on both sides
ValidLicense(license) ==
    /\ Cardinality({i \in 1..Len(license) : license[i] = ":"}) = 1
    /\ license[1] # ":"
    /\ license[Len(license)] # ":"

ValidClearKey(drmInfo) ==
    drmInfo.scheme = <<"clearkey">> /\ ValidLicense(drmInfo.license)

\* C16: DRM information is present in the result only when drmScheme is
\* clearkey and drmLicense is a valid keyId:key pair; any other DRM block
\* counts as absent, in the DRM info and in the classification.
C16_DrmOnlyWhenValidClearKey ==
    ByCanonical =>
        /\ (resolved.drmInfo # NoDrm) => ValidClearKey(resolved.drmInfo)
        /\ resolved.type = FirstMatch(lowerClean, ValidClearKey(resolved.drmInfo))

\* C17: the cleanUrl returned by detectStreamType contains neither '?|' nor
\* a bare '|'.
C17_CleanUrlHasNoDelimiter ==
    ByCanonical => (~includesQP(resolved.cleanUrl) /\ ~includes(resolved.cleanUrl, "|"))

\* the table holds the pair, as hex or re-encoded in base64
HoldsExactly(keys, keyId, key) ==
    /\ keys.configured
    /\ \/ keys.clearKeys = {<< <<keyId>>, <<key>> >>}
       \/ keys.clearKeys = {<< <<hexToBase64(keyId)>>, <<hexToBase64(key)>> >>}

\* C18: for every base free of '|' and every hex keyId and key, the source
\* base + '?|drmScheme=clearkey&drmLicense=' + keyId + ':' + key is resolved,
\* by either player, to the playback URL base, to the Shaka engine and to a
\* ClearKey table holding exactly that pair.
C18_ClearKeyUrlResolves ==
    \A base \in Bases, keyId \in HexStrings, key \in HexStrings :
        (/\ resolved.by # "none"
         /\ ~includes(base, "|")
         /\ rawUrl = ClearKeyUrl(base, keyId, key))
            => /\ resolved.cleanUrl = base
               /\ resolved.engine = "shaka"
               /\ HoldsExactly(resolved.keys, keyId, key)

\* C19: the ClearKey table of the Shaka engine is configured if and only if
\* the scheme is clearkey and the license has exactly one ':' with a
\* non-empty keyId before it and a non-empty key after it.
C19_ClearKeysIffValid ==
    (ByCanonical /\ resolved.engine = "shaka")
        => (resolved.keys.configured <=> ValidClearKey(resolved.drmInfo))

---------------------------------------------------------------------------
(* Properties of the error handling *)

\* the handler of the engine error event ran: the component is mounted
ErrorHandled == phase = "mounted" /\ isMountedRef /\ last'.op = "HlsErrorEvent"

NoTeardown ==
    /\ engine' = engine
    /\ hlsRef' = hlsRef
    /\ shakaPlayerRef' = shakaPlayerRef
    /\ error' = error
    /\ isLoading' = isLoading
    /\ isPlaying' = isPlaying

C23_NonFatalNeverSurfaces ==
    [][ (phase = "mounted" /\ last'.op \in {"HlsErrorEvent", "ShakaErrorEvent"}
            /\ lastEvent'.fatal = "nonfatal")
        => (NoTeardown /\ timers' = timers /\ loadingTimeoutRef' = loadingTimeoutRef)
      ]_vars

\* the load of the latest session is pending: no success signal, no Error
LoadPending ==
    /\ phase = "mounted"
    /\ isMountedRef
    /\ nextId > 1
    /\ Latest \notin succeeded
    /\ isLoading
    /\ error = NoError

\* C25: in every state of a mounted component in which the load is still
\* pending a load deadline is armed, so that every session that enters
\* Loading leaves it once the deadline fires.
C25_PendingLoadHasDeadline ==
    LoadPending => (loadingTimeoutRef # 0 /\ loadingTimeoutRef \in timers)

---------------------------------------------------------------------------
(* Properties of the error message of the Shaka engine *)

MsgNetwork == "Network error - please check your connection"
MsgMediaFormat == "Media format not supported"
MsgDrm == "DRM error - content may be protected"
MsgGeneric == "Stream error (code)"

\* C28: a Shaka error code c is mapped to its message by half-open ranges:
\* 6000 <= c < 7000 is the network message, 4000 <= c < 5000 the media-format
\* message, 1000 <= c < 2000 the DRM message, every other code the generic
\* 'Stream error (c)'; the ranges are disjoint and the four classes distinct.
C28_MessageByHalfOpenRange ==
    LET c == onErrorCall.errorCode
        m == onErrorCall.errorMessage
    IN  (m # NoMessage) =>
            /\ (m = MsgNetwork) <=> (6000 <= c /\ c < 7000)
            /\ (m = MsgMediaFormat) <=> (4000 <= c /\ c < 5000)
            /\ (m = MsgDrm) <=> (1000 <= c /\ c < 2000)
            /\ (m = MsgGeneric) <=>
                   ~ \/ (6000 <= c /\ c < 7000)
                     \/ (4000 <= c /\ c < 5000)
                     \/ (1000 <= c /\ c < 2000)
            /\ Cardinality({MsgNetwork, MsgMediaFormat, MsgDrm, MsgGeneric}) = 4
            /\ Cardinality({x \in {MsgNetwork, MsgMediaFormat, MsgDrm, MsgGeneric} : x = m}) = 1

\* the upper end of the network range is classified as generic
C28_Witness ==
    /\ onErrorCall.errorCode = 7000
    /\ onErrorCall.errorMessage = MsgGeneric

---------------------------------------------------------------------------
(* Properties of the two players on DRM sources *)

RECURSIVE IndexOf(_, _)
\* position of the first occurrence of a call in a call log, 0 when absent
IndexOf(log, call) ==
    IF log = <<>> THEN 0
    ELSE IF Head(log) = call THEN 1
    ELSE LET i == IndexOf(Tail(log), call) IN IF i = 0 THEN 0 ELSE i + 1

\* the ClearKey keys the player of session s has to be given
ClearKeyApplies(s) ==
    IF player = "part_000"
    THEN configureClearKeys(sess[s].drmInfo).configured
    ELSE loadStream(Source(sess[s].src, sess[s].type)).keys.configured

\* C21: whenever ClearKey DRM applies, the key table of the engine is
\* configured strictly before load is invoked on that engine instance, and no
\* DRM configuration call is made on an engine after its load was invoked.
C21_KeysConfiguredBeforeLoad ==
    \A s \in Sessions :
        LET log == calls[s]
            ld  == IndexOf(log, "load")
        IN  /\ (ld # 0 /\ ClearKeyApplies(s)) =>
                   (IndexOf(log, "configureClearKeys") \in 1..(ld - 1))
            /\ (ld # 0) =>
                   \A i \in (ld + 1)..Len(log) : log[i] # "configureClearKeys"
            /\ (ld # 0 /\ ~ClearKeyApplies(s)) =>
                   IndexOf(log, "configureClearKeys") = 0

\* load has been invoked on an engine that was given ClearKey keys
C21_Witness ==
    /\ player = "part_000"
    /\ phase = "mounted"
    /\ nextId > 1
    /\ ClearKeyApplies(Latest)
    /\ engine[Latest] = "live"
    /\ IndexOf(calls[Latest], "load") # 0
    /\ last.op = "ImportShakaResolved"

\* C26: in the Shaka-only player the shaka.Player created for a source is
\* destroyed when the source changes or the component unmounts, so that at
\* most one player that is not destroyed is attached to the video element.
C26_PlayerDestroyedOnChange ==
    ShakaOnly =>
        /\ \A s \in Sessions : (s < Latest) => (engine[s] # "live")
        /\ (phase = "unmounted") => (LiveEngines = {})
        /\ Cardinality(LiveEngines) <= 1

MixedContentSources == {src \in PlayerSources : startsWith(src.src, "http://")}

\* C30: in the Shaka-only player, when the page protocol is https: and the
\* source URL starts with 'http://', the source effect stops at once with the
\* mixed-content error and isLoading false: no shaka.Player is constructed, no
\* load is invoked and video.src is not assigned.
C30_MixedContentStopsAtOnce ==
    (ShakaOnly /\ phase \in {"new", "mounted"} /\ pageProtocol = "https:"
        /\ nextId <= MaxSessions)
    => \A src \in MixedContentSources :
           LET h == streamEffect([St EXCEPT !.phase = "mounted", !.source = src])
           IN  /\ h.error = ErrMixedContent
               /\ ~h.isLoading
               /\ h.engine = engine
               /\ h.calls = calls
               /\ h.videoSrc = videoSrc
               /\ h.sess[nextId].pc = "done"

\* an http source was given to the mounted player on an https page
C30_Witness ==
    /\ ShakaOnly
    /\ pageProtocol = "https:"
    /\ last.op = "NewSource"
    /\ source \in MixedContentSources
    /\ error = ErrMixedContent
    /\ ~isLoading
    /\ engine[last.s] = "none"
    /\ calls[last.s] = <<>>

---------------------------------------------------------------------------
(* Properties of the user intents and of the transport events *)

IntentOps == {"togglePlay", "toggleMute", "handleVolumeChange", "handleSeek"}

\* C24: the user intents togglePlay, toggleMute, handleVolumeChange and
\* handleSeek act only on the playback surface and the flags: none of them
\* destroys or constructs an engine, re-runs initializePlayer, or arms or
\* cancels the load deadline; each is a no-op when no surface is attached.
C24_IntentsLeaveSessionAlone ==
    [][ (last'.op \in IntentOps)
        => /\ engine' = engine
           /\ destroyCalls' = destroyCalls
           /\ hlsRef' = hlsRef
           /\ shakaPlayerRef' = shakaPlayerRef
           /\ nextId' = nextId
           /\ sess' = sess
           /\ timers' = timers
           /\ loadingTimeoutRef' = loadingTimeoutRef
           /\ (videoRef = 0) =>
                  UNCHANGED <<isPlaying, isMuted, volume, currentTime, playing,
                              videoMuted, videoVolume, isLoading, error>>
      ]_vars

\* C27: after any sequence of toggleMute and handleVolumeChange on an
\* attached surface, isMuted equals video.muted and volume equals 100 times
\* video.volume.
C27_FlagsMirrorSurface ==
    (phase = "mounted" /\ videoRef # 0 /\ last.op \in {"toggleMute", "handleVolumeChange"})
    => (isMuted = videoMuted /\ volume = videoVolume)

\* the component shows a stream that loaded: Playing or Paused
PlayingOrPaused ==
    /\ phase = "mounted"
    /\ HasListeners(videoRef)
    /\ nextId > 1
    /\ Latest \in succeeded
    /\ ~isLoading
    /\ error = NoError

\* C29: a waiting event received in Playing or Paused, followed by a canplay
\* event, returns the observable state to what it was: isLoading goes true
\* then false, and isPlaying, error, currentTime, duration, volume, isMuted,
\* the engine handle and the load deadline are unchanged by both events.
C29_StallAndResumeRestore ==
    PlayingOrPaused =>
        LET w == Render(handleWaiting(St))
            c == Render(handleCanPlay(w))
        IN  /\ w.isLoading
            /\ ~c.isLoading
            /\ [w EXCEPT !.isLoading = FALSE] = St
            /\ c = St

\* the resume signal was received after a stall of a stream that loaded
C29_Witness ==
    /\ PlayingOrPaused
    /\ last.op = "canplay"
    /\ isPlaying
    /\ hlsRef = Latest
    /\ engine[Latest] = "live"

====
